---- MODULE Spec2Model ----
(***************************************************************************)
(* Star-topology coordination of flame/schemas/star/star_model.py:         *)
(* one aggregator node and two analyzer nodes, each running StarModel.     *)
(* The FlameCoreSDK calls (send_message, await_and_return_responses,       *)
(* submit_final_result, analysis_finished, config.finished) are the        *)
(* transport facade described in sections 3, 5 and 6 of the specification. *)
(***************************************************************************)
EXTENDS Integers, Sequences, FiniteSets, TLC

\* ---------------------------------------------------------------- bounds
\* The strategies converge at the latest in their MaxRounds-th invocation.
MaxRounds == 2
\* The seconds slept in a readiness wait are counted modulo this.
SleepPeriod == 2
\* The longest list of queries passed to _get_data.
MaxQueries == 3

\* ---------------------------------------------------------------- topology
Aggregators == {"agg"}
Analyzers == {"a1", "a2"}
Nodes == Aggregators \cup Analyzers

\* flame.get_role(): fixed per process.
get_role(n) == IF n \in Aggregators THEN "aggregator" ELSE "default"

\* flame.get_aggregator_id()
get_aggregator_id == "agg"

\* flame.get_participant_ids() / aggregator.partner_node_ids
get_participant_ids == Analyzers

\* _ERROR_MESSAGES
IS_ANALYZER == "IS_ANALYZER"
IS_AGGREGATOR == "IS_AGGREGATOR"
IS_INCORRECT_CLASS == "IS_INCORRECT_CLASS"

\* What a caller may pass as the strategy argument: an instance of the
\* template, a subclass of it, some other class, some other object.
StrategyArgs == {"instance", "subclass", "other_class", "other_object"}

\* The argument as the caller sees it: conforming to the template or not.
ArgKind(arg) == IF arg \in {"instance", "subclass"} THEN "conforming" ELSE arg

\* ---------------------------------------------------------------- values
\* A Python value: an object produced by a strategy, its str() rendering, or None.
None == [type |-> "None", src |-> "", round |-> 0]
Obj(n, k) == [type |-> "obj", src |-> n, round |-> k]

\* str(x): the rendering is a string, whatever x was.
Str(x) == [type |-> "str", src |-> x.src, round |-> x.round]

\* A value of the mapping returned by await_and_return_responses:
\* a list of messages, or None.
NoResponse == [none |-> TRUE, msgs |-> <<>>]
EmptyResponse == [none |-> FALSE, msgs |-> <<>>]
Response(ms) == [none |-> FALSE, msgs |-> ms]

\* Python truthiness of such a value: None and [] are falsy.
Truthy(v) == (~v.none) /\ Len(v.msgs) > 0

Last(s) == s[Len(s)]

\* ---------------------------------------------------------------- _get_data
\* The queries a caller may ask for.
Queries == {"q1", "q2", "q3"}

\* How the data source answers a query: a 2xx answer with a JSON body, a
\* non-2xx status, or a 2xx answer whose body does not parse.
Answers == {"ok", "non2xx", "unparsable"}
Sources == [Queries -> Answers]

\* The query argument: a string, or a list of strings.
StrQuery(q) == [kind |-> "str", qs |-> <<q>>]
ListQuery(qs) == [kind |-> "list", qs |-> qs]
NoQuery == [kind |-> "none", qs |-> <<>>]
QueryLists == UNION {[1..k -> Queries] : k \in 0..MaxQueries}
QueryArgs == {StrQuery(q) : q \in Queries} \cup {ListQuery(qs) : qs \in QueryLists}

\* flame.config.project_id and the path of the GET of lines 159 / 169.
project_id == "project"
Path(q) == <<project_id, "fhir", q>>

\* response.json() of the answer to query q, and the sentinel False.
Json(q) == [type |-> "json", src |-> q, round |-> 0]
PyFalse == [type |-> "False", src |-> "", round |-> 0]
Dict(f) == [type |-> "dict", body |-> f]

\* lines 161-165 / 171-176: raise_for_status() and json() both go through.
ResponseOk(answer) == answer = "ok"

\* responses[q] = v on a dict
DictSet(f, k, v) == [x \in (DOMAIN f) \cup {k} |-> IF x = k THEN v ELSE f[x]]

\* A loop that stops at the first failed query (break where line 176 has pass).
RECURSIVE GetDataLoopBreak(_, _, _)
GetDataLoopBreak(qs, source, acc) ==
  IF qs = <<>> THEN acc
  ELSE LET q == Head(qs)
           reqs == Append(acc.requests, Path(q))
       IN IF ResponseOk(source[q])
          THEN GetDataLoopBreak(Tail(qs), source,
                 [responses |-> DictSet(acc.responses, q, Json(q)), requests |-> reqs])
          ELSE [responses |-> acc.responses, requests |-> reqs]

\* lines 168-176: the loop over the queries; acc holds the responses dict and
\* the GET requests issued so far.
RECURSIVE GetDataLoop(_, _, _)
GetDataLoop(qs, source, acc) ==
  IF qs = <<>> THEN acc
  ELSE LET q == Head(qs)
           reqs == Append(acc.requests, Path(q))
       IN IF ResponseOk(source[q])
          THEN GetDataLoop(Tail(qs), source,
                 [responses |-> DictSet(acc.responses, q, Json(q)), requests |-> reqs])
          ELSE GetDataLoop(Tail(qs), source,
                 [responses |-> acc.responses, requests |-> reqs])

\* _get_data, lines 157-177: the value returned and the GET requests issued.
GetData(query, source) ==
  IF query.kind = "str"
  THEN LET q == query.qs[1]
       IN [ret |-> IF ResponseOk(source[q]) THEN Json(q) ELSE PyFalse,
           requests |-> <<Path(q)>>]
  ELSE LET r == GetDataLoop(query.qs, source, [responses |-> <<>>, requests |-> <<>>])
       IN [ret |-> IF DOMAIN r.responses # {} THEN Dict(r.responses) ELSE PyFalse,
           requests |-> r.requests]

\* The query arguments used in the runs of the whole star.
StarQueryArgs == {StrQuery("q1")}

VARIABLES
  pc,                     \* position of each node in its entrypoint
  entry,                  \* the entrypoint invoked on the node ("" = none yet)
  arg_kind,               \* what was passed as the strategy argument ("" = nothing yet)
  error,                  \* the exception an entrypoint raised ("" = none)
  strategy,               \* self.aggregator / self.analyzer: "unset" or "set"
  finished,               \* flame.config.finished of each node
  slept,                  \* seconds slept so far inside _wait_until_partners_ready, modulo SleepPeriod
  received_list,          \* responders of the latest ready_check attempt
  num_responses,          \* aggregator-side readiness counters
  latest_num_responses,
  ready_check_sent,       \* a ready_check message has been sent by the node
  responders,             \* history: everyone who answered some ready_check of the node
  intermediate_results,   \* messages analyzer -> aggregator, by sender
  aggregated_results,     \* messages aggregator -> analyzer, by receiver
  node_response_dict,     \* aggregator locals
  node_results,
  aggregated_res,
  agg_converged,
  data,                   \* analyzer locals
  aggregator_results,
  converged_local,
  calls,                  \* history: strategy invocations per node
  verdicts,               \* history: the verdicts returned by aggregate, in order
  sends,                  \* history: round messages sent per node
  submits,                \* history: successful submit_final_result calls
  node_finished_calls,    \* history: node_finished() invocations per node
  gd_query,               \* _get_data on its own: the query argument,
  gd_source,              \*   the answers of the data source,
  gd_return,              \*   the value returned (None while not called),
  gd_requests             \*   the GET requests issued

vars == <<pc, entry, arg_kind, error, strategy, finished, slept, received_list, num_responses,
          latest_num_responses, ready_check_sent, responders,
          intermediate_results, aggregated_results, node_response_dict,
          node_results, aggregated_res, agg_converged, data,
          aggregator_results, converged_local, calls, verdicts, sends, submits,
          node_finished_calls, gd_query, gd_source, gd_return, gd_requests>>

gd_vars == <<gd_query, gd_source, gd_return, gd_requests>>
ready_vars == <<slept, received_list, num_responses, latest_num_responses,
                ready_check_sent, responders>>
msg_vars == <<intermediate_results, aggregated_results>>
agg_locals == <<node_response_dict, node_results, aggregated_res, agg_converged>>
an_locals == <<data, aggregator_results, converged_local>>
hist_vars == <<calls, verdicts, sends, submits, node_finished_calls>>
call_vars == <<entry, arg_kind>>

InitNodes ==
  /\ pc = [n \in Nodes |-> "idle"]
  /\ entry = [n \in Nodes |-> ""]
  /\ arg_kind = [n \in Nodes |-> ""]
  /\ error = [n \in Nodes |-> ""]
  /\ strategy = [n \in Nodes |-> "unset"]
  /\ finished = [n \in Nodes |-> FALSE]
  /\ slept = [n \in Nodes |-> 0]
  /\ received_list = [n \in Nodes |-> {}]
  /\ num_responses = 0
  /\ latest_num_responses = -1
  /\ ready_check_sent = [n \in Nodes |-> FALSE]
  /\ responders = [n \in Nodes |-> {}]
  /\ intermediate_results = [a \in Analyzers |-> <<>>]
  /\ aggregated_results = [a \in Analyzers |-> <<>>]
  /\ node_response_dict = [a \in Analyzers |-> NoResponse]
  /\ node_results = <<>>
  /\ aggregated_res = None
  /\ agg_converged = FALSE
  /\ data = [a \in Analyzers |-> None]
  /\ aggregator_results = [a \in Analyzers |-> None]
  /\ converged_local = [a \in Analyzers |-> FALSE]
  /\ calls = [n \in Nodes |-> 0]
  /\ verdicts = <<>>
  /\ sends = [n \in Nodes |-> 0]
  /\ submits = 0
  /\ node_finished_calls = [n \in Nodes |-> 0]

\* The star: no stand-alone call of _get_data.
Init ==
  /\ InitNodes
  /\ gd_query = NoQuery
  /\ gd_source = [q \in Queries |-> "ok"]
  /\ gd_return = None
  /\ gd_requests = <<>>

\* _get_data on its own: any query argument against any data source.
InitGetData ==
  /\ InitNodes
  /\ gd_query \in QueryArgs
  /\ gd_source \in Sources
  /\ gd_return = None
  /\ gd_requests = <<>>

\* ---------------------------------------------------------------- role and type checks
is_aggregator(n) == get_role(n) = "aggregator"

is_analyzer(n) == get_role(n) = "default"

\* A type check that lets every class through, subclass or not.
TypeCheckAnyClass(arg) ==
  CASE arg = "instance" -> "ok"
    [] arg = "subclass" -> "ok"
    [] arg = "other_class" -> "ok"
    [] OTHER -> "TypeError"

\* isinstance(x, Template) or issubclass(x, Template):
\* "ok" when one of them holds, "no" for a class that is no subclass,
\* "TypeError" for an object that is no instance (issubclass raises on a non-class).
TypeCheck(arg) ==
  CASE arg = "instance" -> "ok"
    [] arg = "subclass" -> "ok"
    [] arg = "other_class" -> "no"
    [] OTHER -> "TypeError"

\* Entry guards that forget the role test.
EntryErrorNoRoleTest(roleOk, wrongRoleMsg, arg) ==
  IF TypeCheck(arg) = "ok" THEN ""
  ELSE IF TypeCheck(arg) = "no" THEN IS_INCORRECT_CLASS
  ELSE "TypeError_issubclass"

\* Outcome of the guards of an entrypoint: the error raised, or "" when it goes on.
EntryError(roleOk, wrongRoleMsg, arg) ==
  IF ~roleOk THEN wrongRoleMsg
  ELSE IF TypeCheck(arg) = "ok" THEN ""
  ELSE IF TypeCheck(arg) = "no" THEN IS_INCORRECT_CLASS
  ELSE "TypeError_issubclass"

\* start_aggregator, lines 36-45 and 75-78: guards and strategy set-up.
start_aggregator(n) ==
  /\ pc[n] = "idle"
  /\ entry' = [entry EXCEPT ![n] = "start_aggregator"]
  /\ \E arg \in StrategyArgs :
       /\ arg_kind' = [arg_kind EXCEPT ![n] = ArgKind(arg)]
       /\ LET e == EntryError(is_aggregator(n), IS_ANALYZER, arg) IN
            IF e = ""
            THEN /\ strategy' = [strategy EXCEPT ![n] = "set"]
                 /\ pc' = [pc EXCEPT ![n] = "ready"]
                 /\ error' = error
            ELSE /\ error' = [error EXCEPT ![n] = e]
                 /\ pc' = [pc EXCEPT ![n] = "error"]
                 /\ strategy' = strategy
  /\ UNCHANGED <<gd_vars, finished, ready_vars, msg_vars, agg_locals, an_locals, hist_vars>>

\* start_analyzer, lines 80-88 and 116-119: guards and strategy set-up.
start_analyzer(n) ==
  /\ pc[n] = "idle"
  /\ entry' = [entry EXCEPT ![n] = "start_analyzer"]
  /\ \E arg \in StrategyArgs :
       /\ arg_kind' = [arg_kind EXCEPT ![n] = ArgKind(arg)]
       /\ LET e == EntryError(is_analyzer(n), IS_AGGREGATOR, arg) IN
            IF e = ""
            THEN /\ strategy' = [strategy EXCEPT ![n] = "set"]
                 /\ pc' = [pc EXCEPT ![n] = "ready"]
                 /\ error' = error
            ELSE /\ error' = [error EXCEPT ![n] = e]
                 /\ pc' = [pc EXCEPT ![n] = "error"]
                 /\ strategy' = strategy
  /\ UNCHANGED <<gd_vars, finished, ready_vars, msg_vars, agg_locals, an_locals, hist_vars>>

\* ---------------------------------------------------------------- transport facade
\* send_message(receivers, 'ready_check', {}, timeout=120): the possible
\* responder lists, any subset of the receivers.
ReadyCheckResponders(receivers) == SUBSET receivers

\* await_and_return_responses for one sender whose message history is h:
\* the history when it is non-empty, otherwise null or empty.
AwaitSender(h) == IF Len(h) > 0 THEN {Response(h)} ELSE {NoResponse, EmptyResponse}

\* await_and_return_responses(node_ids, category): one value per sender.
AwaitResponses(node_ids, history) ==
  {d \in [node_ids -> {NoResponse, EmptyResponse} \cup {Response(history[p]) : p \in node_ids}] :
     \A p \in node_ids : d[p] \in AwaitSender(history[p])}

\* ---------------------------------------------------------------- _wait_until_partners_ready
\* Where the entrypoint goes on after line 45 / line 91.
AfterReady(e) == IF e = "start_analyzer" THEN "get_data" ELSE "loop"

\* A readiness loop whose membership tests lost their "not".
AnalyzerReadyOutcomeInverted(recv) ==
  IF get_aggregator_id \in recv THEN "again"
  ELSE IF get_aggregator_id \in recv THEN "error"
  ELSE "ok"

\* Analyzer side, lines 126-136, after an attempt returned recv:
\* "again" (loop once more), "ok" (return) or "error" (line 134).
AnalyzerReadyOutcome(recv) ==
  IF get_aggregator_id \notin recv THEN "again"
  ELSE IF get_aggregator_id \notin recv THEN "error"
  ELSE "ok"

\* Analyzer side: one pass of the loop of lines 126-132 and the exit of lines 133-136.
wait_until_partners_ready_analyzer(n) ==
  /\ pc[n] = "ready"
  /\ is_analyzer(n)
  /\ \E recv \in ReadyCheckResponders({get_aggregator_id}) :
       /\ received_list' = [received_list EXCEPT ![n] = recv]
       /\ responders' = [responders EXCEPT ![n] = @ \cup recv]
       /\ pc' = [pc EXCEPT ![n] =
                   CASE AnalyzerReadyOutcome(recv) = "again" -> "ready"
                     [] AnalyzerReadyOutcome(recv) = "ok" -> AfterReady(entry[n])
                     [] OTHER -> "error"]
       /\ error' = [error EXCEPT ![n] =
                   IF AnalyzerReadyOutcome(recv) = "error" THEN "Could not contact aggregator" ELSE @]
  /\ slept' = [slept EXCEPT ![n] = IF pc'[n] = "ready" THEN (@ + 1) % SleepPeriod ELSE 0]
  /\ ready_check_sent' = [ready_check_sent EXCEPT ![n] = TRUE]
  /\ UNCHANGED <<gd_vars, call_vars, strategy, finished, num_responses, latest_num_responses,
                 msg_vars, agg_locals, an_locals, hist_vars>>

\* Aggregator side, lines 151-153: the loop ends when the latest attempt
\* got as many responders as there are analyzers.
AggregatorReadyDone(recv, analyzer_ids) == Cardinality(recv) = Cardinality(analyzer_ids)

\* Aggregator side: one pass of the loop of lines 140-153.
wait_until_partners_ready_aggregator(n) ==
  /\ pc[n] = "ready"
  /\ ~is_analyzer(n)
  /\ latest_num_responses' =
       IF latest_num_responses < num_responses THEN num_responses ELSE latest_num_responses
  /\ \E recv \in ReadyCheckResponders(get_participant_ids) :
       /\ received_list' = [received_list EXCEPT ![n] = recv]
       /\ responders' = [responders EXCEPT ![n] = @ \cup recv]
       /\ num_responses' = Cardinality(recv)
       /\ pc' = [pc EXCEPT ![n] =
                   IF AggregatorReadyDone(recv, get_participant_ids)
                   THEN AfterReady(entry[n]) ELSE "ready"]
  /\ slept' = [slept EXCEPT ![n] = IF pc'[n] = "ready" THEN (@ + 1) % SleepPeriod ELSE 0]
  /\ ready_check_sent' = [ready_check_sent EXCEPT ![n] = TRUE]
  /\ UNCHANGED <<gd_vars, call_vars, error, strategy, finished, msg_vars, agg_locals, an_locals, hist_vars>>

\* ---------------------------------------------------------------- strategies
\* The convergence verdicts a strategy may return in its k-th invocation.
Verdicts(k) == IF k >= MaxRounds THEN {TRUE} ELSE BOOLEAN

\* ---------------------------------------------------------------- start_aggregator loop
\* A converged() that never sees the flag.
convergedNever(n) == FALSE

\* converged(), line 180
converged(n) == finished[n]

\* The order in which the partners are listed in partner_node_ids.
PartnerOrder == <<"a1", "a2">>

\* any() where line 52 has all().
AnyResponded(d) == \E p \in DOMAIN d : Truthy(d[p])

\* line 52: all([v for v in node_response_dict.values()])
AllResponded(d) == \A p \in DOMAIN d : Truthy(d[p])

\* line 53: response[-1] raises IndexError on a response that is an empty list.
IndexFails(d) == \E p \in DOMAIN d : (~d[p].none) /\ Len(d[p].msgs) = 0

\* Results taken from the first message of every response (response[0]).
NodeResultsFirst(d) ==
  LET ps == SelectSeq(PartnerOrder, LAMBDA p : ~d[p].none)
  IN [i \in 1..Len(ps) |-> Head(d[ps[i]].msgs)]

\* lines 53-54: the result of the last message of every response that is not None.
NodeResults(d) ==
  LET ps == SelectSeq(PartnerOrder, LAMBDA p : ~d[p].none)
  IN [i \in 1..Len(ps) |-> Last(d[ps[i]].msgs)]

\* line 47: the loop test of start_aggregator.
aggregator_loop_test(n) ==
  /\ pc[n] = "loop"
  /\ entry[n] = "start_aggregator"
  /\ pc' = [pc EXCEPT ![n] = IF converged(n) THEN "finish" ELSE "collect"]
  /\ UNCHANGED <<gd_vars, call_vars, error, strategy, finished, ready_vars, msg_vars, agg_locals,
                 an_locals, hist_vars>>

\* lines 49-59: collect the responses and, when all are there, aggregate.
aggregator_collect(n) ==
  /\ pc[n] = "collect"
  /\ \E d \in AwaitResponses(get_participant_ids, intermediate_results) :
       /\ node_response_dict' = d
       /\ IF AllResponded(d) /\ IndexFails(d)
          THEN /\ pc' = [pc EXCEPT ![n] = "error"]
               /\ error' = [error EXCEPT ![n] = "IndexError"]
               /\ UNCHANGED <<node_results, aggregated_res, agg_converged, calls, verdicts>>
          ELSE IF AllResponded(d)
          THEN /\ node_results' = NodeResults(d)
               /\ aggregated_res' = Obj(n, calls[n] + 1)
               /\ \E c \in Verdicts(calls[n] + 1) :
                    /\ agg_converged' = c
                    /\ verdicts' = Append(verdicts, c)
               /\ calls' = [calls EXCEPT ![n] = @ + 1]
               /\ pc' = [pc EXCEPT ![n] = "decide"]
               /\ error' = error
          ELSE /\ pc' = [pc EXCEPT ![n] = "loop"]
               /\ UNCHANGED <<node_results, aggregated_res, agg_converged, calls,
                              verdicts, error>>
  /\ UNCHANGED <<gd_vars, call_vars, strategy, finished, ready_vars, msg_vars, an_locals,
                 sends, submits, node_finished_calls>>

\* A submit whose exception is swallowed.
AfterSubmitSwallowed(ok) == "submitted"

\* line 65: where submit_final_result leaves the aggregator; an exception of
\* the storage service propagates out of start_aggregator.
AfterSubmit(ok) == IF ok THEN "submitted" ELSE "error"

\* A branch that submits whatever the verdict is.
ShouldSubmitAlways(conv) == TRUE

\* lines 63 and 70: submit when the verdict is converged, broadcast otherwise.
ShouldSubmit(conv) == conv

\* lines 63-73: submit the final result, or broadcast the aggregated result.
aggregator_decide(n) ==
  /\ pc[n] = "decide"
  /\ IF ShouldSubmit(agg_converged)
     THEN /\ \E ok \in BOOLEAN :
               /\ pc' = [pc EXCEPT ![n] = AfterSubmit(ok)]
               /\ submits' = IF ok THEN submits + 1 ELSE submits
               /\ error' = [error EXCEPT ![n] = IF ok THEN @ ELSE "SubmitError"]
          /\ UNCHANGED <<aggregated_results, sends>>
     ELSE /\ aggregated_results' =
               [p \in Analyzers |-> Append(aggregated_results[p], Str(aggregated_res))]
          /\ sends' = [sends EXCEPT ![n] = @ + 1]
          /\ pc' = [pc EXCEPT ![n] = "loop"]
          /\ UNCHANGED <<submits, error>>
  /\ UNCHANGED <<gd_vars, call_vars, strategy, finished, ready_vars, intermediate_results, agg_locals,
                 an_locals, calls, verdicts, node_finished_calls>>

\* line 67: flame.analysis_finished()
analysis_finished(n) ==
  /\ pc[n] = "submitted"
  /\ finished' = [finished EXCEPT ![n] = TRUE]
  /\ pc' = [pc EXCEPT ![n] = "loop"]
  /\ UNCHANGED <<gd_vars, call_vars, error, strategy, ready_vars, msg_vars, agg_locals, an_locals, hist_vars>>

\* The finished flag of the aggregator becomes visible to an analyzer.
flag_visible(n) ==
  /\ n \in Analyzers
  /\ finished[get_aggregator_id]
  /\ ~finished[n]
  /\ finished' = [finished EXCEPT ![n] = TRUE]
  /\ UNCHANGED <<gd_vars, call_vars, pc, error, strategy, ready_vars, msg_vars, agg_locals, an_locals, hist_vars>>

\* lines 74 and 115: strategy.node_finished() after the loop.
node_finished(n) ==
  /\ pc[n] = "finish"
  /\ node_finished_calls' = [node_finished_calls EXCEPT ![n] = @ + 1]
  /\ pc' = [pc EXCEPT ![n] = "done"]
  /\ UNCHANGED <<gd_vars, call_vars, error, strategy, finished, ready_vars, msg_vars, agg_locals,
                 an_locals, calls, verdicts, sends, submits>>

\* ---------------------------------------------------------------- start_analyzer loop
\* line 94: data = asyncio.run(self._get_data(query))
get_data(n) ==
  /\ pc[n] = "get_data"
  /\ \E query \in StarQueryArgs, source \in Sources :
       data' = [data EXCEPT ![n] = GetData(query, source).ret]
  /\ pc' = [pc EXCEPT ![n] = "loop"]
  /\ UNCHANGED <<gd_vars, call_vars, error, strategy, finished, ready_vars, msg_vars, agg_locals,
                 aggregator_results, converged_local, hist_vars>>

\* line 100: the loop test of start_analyzer.
analyzer_loop_test(n) ==
  /\ pc[n] = "loop"
  /\ entry[n] = "start_analyzer"
  /\ pc' = [pc EXCEPT ![n] = IF converged(n) THEN "finish" ELSE "body"]
  /\ UNCHANGED <<gd_vars, call_vars, error, strategy, finished, ready_vars, msg_vars, agg_locals,
                 an_locals, hist_vars>>

\* A loop body that analyzes in every iteration.
ShouldAnalyzeAlways(conv) == TRUE

\* line 101: analyze and send only while the local verdict is not converged.
ShouldAnalyze(conv) == ~conv

\* line 110: wait for the aggregated result only when nothing has converged.
ShouldAwait(fin, conv) == (~fin) /\ (~conv)

\* lines 101-110: analyze and send the result to the aggregator, then decide
\* whether to wait for the aggregated result.
analyzer_body(n) ==
  /\ pc[n] = "body"
  /\ IF ShouldAnalyze(converged_local[n])
     THEN /\ \E c \in Verdicts(calls[n] + 1) :
               converged_local' = [converged_local EXCEPT ![n] = c]
          /\ calls' = [calls EXCEPT ![n] = @ + 1]
          /\ intermediate_results' =
               [intermediate_results EXCEPT ![n] = Append(@, Str(Obj(n, calls[n] + 1)))]
          /\ sends' = [sends EXCEPT ![n] = @ + 1]
     ELSE UNCHANGED <<converged_local, calls, intermediate_results, sends>>
  /\ pc' = [pc EXCEPT ![n] =
              IF ShouldAwait(converged(n), converged_local'[n]) THEN "await" ELSE "loop"]
  /\ UNCHANGED <<gd_vars, call_vars, error, strategy, finished, ready_vars, aggregated_results, agg_locals,
                 data, aggregator_results, verdicts, submits, node_finished_calls>>

\* lines 112-114: [aggregator_id][-1].body['result'] of the response:
\* None[-1] raises TypeError, [][-1] raises IndexError.
AwaitError(resp) ==
  IF resp.none THEN "TypeError_NoneType" ELSE IF Len(resp.msgs) = 0 THEN "IndexError" ELSE ""

\* A wait whose result is not kept.
StoredResultDropped(resp, previous) == previous

\* line 114: the value assigned to aggregator_results, the 'result' of the
\* last message of the aggregator's response.
StoredResult(resp, previous) == Last(resp.msgs)

\* lines 112-114: wait for the aggregated result of the round.
analyzer_await(n) ==
  /\ pc[n] = "await"
  /\ \E resp \in AwaitSender(aggregated_results[n]) :
       IF AwaitError(resp) = ""
       THEN /\ aggregator_results' = [aggregator_results EXCEPT ![n] = StoredResult(resp, @)]
            /\ pc' = [pc EXCEPT ![n] = "loop"]
            /\ error' = error
       ELSE /\ error' = [error EXCEPT ![n] = AwaitError(resp)]
            /\ pc' = [pc EXCEPT ![n] = "error"]
            /\ aggregator_results' = aggregator_results
  /\ UNCHANGED <<gd_vars, call_vars, strategy, finished, ready_vars, msg_vars, agg_locals, data,
                 converged_local, hist_vars>>

Next ==
  \/ \E n \in Nodes : start_aggregator(n)
  \/ \E n \in Nodes : start_analyzer(n)
  \/ \E n \in Nodes : wait_until_partners_ready_analyzer(n)
  \/ \E n \in Nodes : wait_until_partners_ready_aggregator(n)
  \/ \E n \in Nodes : aggregator_loop_test(n)
  \/ \E n \in Nodes : aggregator_collect(n)
  \/ \E n \in Nodes : aggregator_decide(n)
  \/ \E n \in Nodes : analysis_finished(n)
  \/ \E n \in Nodes : flag_visible(n)
  \/ \E n \in Nodes : node_finished(n)
  \/ \E n \in Nodes : get_data(n)
  \/ \E n \in Nodes : analyzer_loop_test(n)
  \/ \E n \in Nodes : analyzer_body(n)
  \/ \E n \in Nodes : analyzer_await(n)

Spec == Init /\ [][Next]_vars

\* _get_data called with gd_query against gd_source.
get_data_call ==
  /\ gd_return = None
  /\ gd_return' = GetData(gd_query, gd_source).ret
  /\ gd_requests' = GetData(gd_query, gd_source).requests
  /\ UNCHANGED <<gd_query, gd_source, call_vars, pc, error, strategy, finished, ready_vars,
                 msg_vars, agg_locals, an_locals, hist_vars>>

NextGetData == get_data_call

SpecGetData == InitGetData /\ [][NextGetData]_vars

\* Every step a node can take.
NodeStep(n) ==
  \/ start_aggregator(n)
  \/ start_analyzer(n)
  \/ wait_until_partners_ready_analyzer(n)
  \/ wait_until_partners_ready_aggregator(n)
  \/ aggregator_loop_test(n)
  \/ aggregator_collect(n)
  \/ aggregator_decide(n)
  \/ analysis_finished(n)
  \/ node_finished(n)
  \/ get_data(n)
  \/ analyzer_loop_test(n)
  \/ analyzer_body(n)
  \/ analyzer_await(n)

\* Every node process keeps running while it has a step to take, and the
\* finished flag eventually becomes visible.
FairSpec ==
  /\ Spec
  /\ \A n \in Nodes : WF_vars(NodeStep(n))
  /\ \A n \in Nodes : WF_vars(flag_visible(n))

\* ---------------------------------------------------------------- properties

\* C1 (round completeness): an iteration of the aggregator loop whose collected
\* responses leave some partner absent (None) or empty never invokes aggregate;
\* it performs no submit and no broadcast and goes back to the loop test.
\* Conversely aggregate is only invoked with every partner's response present.
C1_RoundCompleteness ==
  [][\A n \in Aggregators :
       /\ (pc[n] = "collect" /\ pc'[n] # "collect"
             /\ \E p \in Analyzers : ~Truthy(node_response_dict'[p]))
          => /\ pc'[n] = "loop"
             /\ calls'[n] = calls[n]
             /\ verdicts' = verdicts
             /\ submits' = submits
             /\ sends'[n] = sends[n]
             /\ aggregated_results' = aggregated_results
       /\ (calls'[n] # calls[n])
          => \A p \in Analyzers : Truthy(node_response_dict'[p])]_vars

\* The aggregator went round the loop with one partner present and one absent,
\* and has not aggregated.
C1_Witness ==
  /\ pc["agg"] = "loop"
  /\ calls["agg"] = 0
  /\ \E p \in Analyzers : Truthy(node_response_dict[p])
  /\ \E p \in Analyzers : ~Truthy(node_response_dict[p])

\* C2: the finished flag of a node never reverts to false; the aggregator sets
\* it only right after a submit_final_result of the converged round returned
\* successfully; an analyzer sees it only after the aggregator set it; a failed
\* submit leaves it false.
C2_FlagOnceAfterSubmit ==
  [][/\ \A n \in Nodes : finished[n] => finished'[n]
     /\ \A n \in Aggregators :
          (finished'[n] /\ ~finished[n])
          => (pc[n] = "submitted" /\ submits = 1 /\ error[n] = "" /\ agg_converged)
     /\ \A n \in Analyzers :
          (finished'[n] /\ ~finished[n]) => finished[get_aggregator_id]
     /\ \A n \in Nodes : (error'[n] = "SubmitError") => ~finished'[n]]_vars

\* The aggregator has submitted and set the flag, and an analyzer has seen it.
C2_Witness ==
  /\ finished["agg"]
  /\ submits = 1
  /\ finished["a1"]

\* C3: the aggregator-side readiness wait has returned exactly when every
\* partner has appeared in the cumulative responder set of its attempts.
C3_CumulativeReadiness ==
  \A n \in Aggregators :
    (strategy[n] = "set")
    => ((pc[n] # "ready") <=> (responders[n] = get_participant_ids))

\* C4: the analyzer-side readiness wait has returned exactly when the
\* aggregator was among the responders of some ready_check attempt.
C4_AnalyzerReadiness ==
  \A n \in Analyzers :
    (strategy[n] = "set")
    => ((pc[n] # "ready") <=> (get_aggregator_id \in responders[n]))

\* An analyzer came out of the readiness wait after the aggregator answered.
C4_Witness ==
  /\ pc["a1"] = "get_data"
  /\ ready_check_sent["a1"]
  /\ responders["a1"] = {"agg"}

\* C5: a readiness wait never lasts forever: it returns or it fails.
C5_ReadinessEnds ==
  \A n \in Nodes : (pc[n] = "ready") ~> (pc[n] # "ready")

\* C6: an entrypoint invoked on a node of the other role has failed with the
\* role error; the node has sent no message of any category, has no strategy,
\* has invoked none, and its finished flag is still false.
C6_RoleMismatch ==
  \A n \in Nodes :
    (\/ (entry[n] = "start_aggregator" /\ get_role(n) = "default")
     \/ (entry[n] = "start_analyzer" /\ get_role(n) = "aggregator"))
    => /\ pc[n] = "error"
       /\ error[n] = (IF entry[n] = "start_aggregator" THEN IS_ANALYZER ELSE IS_AGGREGATOR)
       /\ ~ready_check_sent[n]
       /\ sends[n] = 0
       /\ (n \in Analyzers => intermediate_results[n] = <<>>)
       /\ (n \in Aggregators => \A p \in Analyzers : aggregated_results[p] = <<>>)
       /\ strategy[n] = "unset"
       /\ calls[n] = 0
       /\ node_finished_calls[n] = 0
       /\ ~finished[n]

\* Both mismatches: start_aggregator on an analyzer, start_analyzer on the aggregator.
C6_Witness ==
  /\ entry["a1"] = "start_aggregator"
  /\ error["a1"] = IS_ANALYZER
  /\ entry["agg"] = "start_analyzer"
  /\ error["agg"] = IS_AGGREGATOR

\* C7: an entrypoint invoked on a node of the right role with a strategy that
\* is neither an instance nor a subclass of the template has failed before the
\* readiness wait: no ready_check and no other message sent, no strategy set
\* or invoked, and the node stays failed.
C7_InvalidStrategyType ==
  \A n \in Nodes :
    (/\ \/ (entry[n] = "start_aggregator" /\ get_role(n) = "aggregator")
        \/ (entry[n] = "start_analyzer" /\ get_role(n) = "default")
     /\ arg_kind[n] \in {"other_class", "other_object"})
    => /\ pc[n] = "error"
       /\ error[n] = (IF arg_kind[n] = "other_class"
                      THEN IS_INCORRECT_CLASS ELSE "TypeError_issubclass")
       /\ ~ready_check_sent[n]
       /\ slept[n] = 0
       /\ sends[n] = 0
       /\ strategy[n] = "unset"
       /\ calls[n] = 0

\* The aggregator was given a class that is no subclass, an analyzer an object
\* that is no instance.
C7_Witness ==
  /\ entry["agg"] = "start_aggregator"
  /\ arg_kind["agg"] = "other_class"
  /\ error["agg"] = IS_INCORRECT_CLASS
  /\ entry["a1"] = "start_analyzer"
  /\ arg_kind["a1"] = "other_object"
  /\ error["a1"] = "TypeError_issubclass"

\* C8: node_finished() is called at most once, only after the loop, and has
\* been called once whenever a run that reached the round loop has ended,
\* also when it ended with an error raised inside the loop.
C8_NodeFinishedOnce ==
  \A n \in Nodes :
    /\ node_finished_calls[n] <= 1
    /\ (node_finished_calls[n] = 1) => (pc[n] = "done")
    /\ (pc[n] = "done") => (node_finished_calls[n] = 1)
    /\ (pc[n] = "error" /\ error[n] \in {"SubmitError", "TypeError_NoneType", "IndexError"})
       => (node_finished_calls[n] = 1)

\* C9: once the local verdict of an analyzer is converged, no step invokes
\* analyze again or sends another intermediate_results message.
C9_NoResendAfterLocalConvergence ==
  [][\A n \in Analyzers :
       converged_local[n]
       => /\ calls'[n] = calls[n]
          /\ sends'[n] = sends[n]
          /\ intermediate_results'[n] = intermediate_results[n]]_vars

\* A locally converged analyzer is in a later iteration of its loop, at the
\* place where it would analyze.
C9_Witness ==
  /\ converged_local["a1"]
  /\ pc["a1"] = "body"
  /\ calls["a1"] = 1
  /\ sends["a1"] = 1

\* C10: every analyzer has received exactly one aggregated_results message per
\* aggregate call that returned converged = false (the i-th message carrying the
\* i-th aggregated result) and none for a call that returned converged = true;
\* the broadcast of a call under way is the only one that may be outstanding.
C10_OneBroadcastPerOpenRound ==
  LET open == Cardinality({i \in 1..Len(verdicts) : ~verdicts[i]})
      pending == IF pc["agg"] = "decide" /\ ~agg_converged THEN 1 ELSE 0
  IN /\ sends["agg"] = open - pending
     /\ \A p \in Analyzers :
          /\ Len(aggregated_results[p]) = open - pending
          /\ \A i \in 1..Len(aggregated_results[p]) :
               aggregated_results[p][i] = Str(Obj("agg", i))

\* The aggregation needed two rounds, and each analyzer got one message.
C10_Witness ==
  /\ verdicts = <<FALSE, TRUE>>
  /\ pc["agg"] = "done"
  /\ \A p \in Analyzers : Len(aggregated_results[p]) = 1

\* C11: when the first aggregate call returns converged = true, no analyzer
\* run ends otherwise than through node_finished(), with analyze invoked once
\* and intermediate_results sent once, and no analyzer starts a second round.
C11_FirstRoundConvergence ==
  (Len(verdicts) >= 1 /\ verdicts[1])
  => \A n \in Analyzers :
       /\ calls[n] <= 1
       /\ sends[n] <= 1
       /\ pc[n] # "error"
       /\ (pc[n] = "done") => (calls[n] = 1 /\ sends[n] = 1 /\ node_finished_calls[n] = 1)

\* C12: the aggregate call of round k gets from every partner the result that
\* partner produced in its round k, and the analyze call of round k gets the
\* aggregated result of round k-1 (None in round 1).
C12_NoStaleData ==
  /\ (pc["agg"] = "decide")
     => \A i \in 1..Len(node_results) : node_results[i].round = calls["agg"]
  /\ \A n \in Analyzers :
       (pc[n] = "body" /\ ~converged_local[n])
       => aggregator_results[n] =
            (IF calls[n] = 0 THEN None ELSE Str(Obj("agg", calls[n])))

\* C13: an analyzer whose local verdict is converged while its finished flag
\* is false does not go from the loop body straight back to the loop test:
\* the iteration passes through a wait.
C13_NoBusyLoop ==
  [][\A n \in Analyzers :
       (pc[n] = "body" /\ converged_local[n] /\ ~finished[n] /\ pc'[n] # pc[n])
       => pc'[n] = "await"]_vars

\* C14: an analyzer whose wait for aggregated_results ends with no message of
\* the aggregator (a timeout) does not fault: it keeps its previous
\* aggregator_results and goes on with its loop.
C14_TimeoutRecoverable ==
  [][\A n \in Analyzers :
       (pc[n] = "await" /\ pc'[n] # "await" /\ Len(aggregated_results[n]) = 0)
       => /\ pc'[n] = "loop"
          /\ error'[n] = ""
          /\ aggregator_results'[n] = aggregator_results[n]]_vars

\* C15: a wait is interruptible by the finished flag: an analyzer that leaves
\* its wait for aggregated_results while its flag is true goes on to the loop
\* test (and from there out of the loop) without an error.
C15_WaitInterruptible ==
  [][\A n \in Analyzers :
       (pc[n] = "await" /\ finished[n] /\ pc'[n] # "await")
       => (pc'[n] = "loop" /\ error'[n] = "")]_vars

\* C16: _get_data with a list of queries issues one GET per query, in order,
\* and returns the mapping whose keys are exactly the queries answered with a
\* parsable 2xx response, each mapped to its body, or False when there is none.
C16_GetDataKeys ==
  (gd_return.type # "None" /\ gd_query.kind = "list")
  => LET qs == gd_query.qs
         good == {q \in {qs[i] : i \in 1..Len(qs)} : gd_source[q] = "ok"}
     IN /\ Len(gd_requests) = Len(qs)
        /\ \A i \in 1..Len(qs) : gd_requests[i] = Path(qs[i])
        /\ IF good = {}
           THEN gd_return.type = "False"
           ELSE /\ gd_return.type = "dict"
                /\ DOMAIN gd_return.body = good
                /\ \A q \in good : gd_return.body[q] = Json(q)

\* Three different queries, the first of which fails: two keys are returned.
C16_Witness ==
  /\ gd_query = ListQuery(<<"q1", "q2", "q3">>)
  /\ gd_source["q1"] = "non2xx"
  /\ gd_source["q2"] = "ok"
  /\ gd_source["q3"] = "ok"
  /\ gd_return.type = "dict"
  /\ DOMAIN gd_return.body = {"q2", "q3"}
  /\ Len(gd_requests) = 3

C18_OneLatestResultPerPartner ==
  [][(calls'["agg"] # calls["agg"])
       => /\ Len(node_results') = Cardinality(get_participant_ids)
          /\ \A i \in 1..Len(node_results') :
               /\ node_results'[i].src = PartnerOrder[i]
               /\ node_results'[i] = Last(intermediate_results[PartnerOrder[i]])
               /\ node_results'[i].round = Len(intermediate_results[PartnerOrder[i]])]_vars

\* An aggregate call made when a partner had sent two messages: it got the
\* second one.
C18_Witness ==
  /\ pc["agg"] = "decide"
  /\ Len(intermediate_results["a1"]) = 2
  /\ Len(node_results) = 2
  /\ node_results[1] = Str(Obj("a1", 2))

\* C19: no analyzer is left waiting for an aggregated_results message that a
\* converged aggregator will never send: such an analyzer cannot get to
\* node_finished().
C19_NobodyLeftWaiting ==
  \A n \in Analyzers :
    ~(/\ pc[n] = "await"
      /\ aggregated_results[n] = <<>>
      /\ agg_converged
      /\ pc["agg"] \in {"decide", "submitted", "loop", "finish", "done"})

\* C20: submit_final_result is called at most once; once aggregate has returned
\* converged = true there is no further collect, aggregate or broadcast; each
\* round ends with a submit or with a broadcast, never both.
C20_SubmitOnceThenStop ==
  [][/\ submits' + (IF error'["agg"] = "SubmitError" THEN 1 ELSE 0) <= 1
     /\ sends'["agg"] + submits' <= calls'["agg"]
     /\ (submits' # submits) => (sends' = sends /\ aggregated_results' = aggregated_results)
     /\ (sends'["agg"] # sends["agg"]) => (submits' = submits)
     /\ (Len(verdicts) > 0 /\ verdicts[Len(verdicts)])
        => /\ calls'["agg"] = calls["agg"]
           /\ node_response_dict' = node_response_dict
           /\ pc'["agg"] # "collect"
           /\ sends'["agg"] = sends["agg"]
           /\ aggregated_results' = aggregated_results]_vars

\* A run of two rounds: one broadcast, then one submit, and the aggregator is done.
C20_Witness ==
  /\ pc["agg"] = "done"
  /\ verdicts = <<FALSE, TRUE>>
  /\ submits = 1
  /\ sends["agg"] = 1
====
